---- MODULE Spec2Model ----
(***************************************************************************)
(* Model of dags/workflow_one.py: the weather enrichment script.  One run  *)
(* of the script is the main thread (pc) walking through read_data,        *)
(* fetch_all_weather (a ThreadPoolExecutor of max_workers threads running  *)
(* fetch_weather), pd.merge, the column selection and load_to_database,    *)
(* followed by the push of script_status by run_external_script.           *)
(***************************************************************************)
EXTENDS Naturals, Integers, Sequences, FiniteSets, TLC

\* ---------------------------------------------------------------- bounds
\* Longest city column of a run checked with the full range of API answers.
MaxCities == 2
\* Longest city column of a run checked with plain API answers (more keys
\* than the executor has workers).
PoolCities == 6

\* ------------------------------------------------------------- constants
\* ThreadPoolExecutor(max_workers=5)
max_workers == 5

\* default_args: 'retries': 1
retries == 1

\* Python's None.
None == "None"

\* Entity keys that may appear in the city column of cities.csv.
Keys == {"A", "B"}
\* Names the weather API may put in the "name" field of its answer.
ApiNames == Keys \cup {"X"}

\* The stages of a run, in the order __main__ calls them.
Stages == <<"Load", "Fetch", "Merge", "Persist">>

\* The rows a previous run left in the table merged_data.
OldRows == <<[city |-> "A", ref |-> 0, temperature |-> "old"]>>
\* The table merged_data does not exist.
NoTable == <<[city |-> None, ref |-> 0, temperature |-> "absent"]>>

VARIABLES
    csv,                \* cities.csv: [state, rows]
    API_KEY,            \* os.getenv("API_KEY")
    apiKinds,           \* kinds of answer the remote API gives in this run
    pc,                 \* position of the main thread
    city_data,          \* DataFrame returned by read_data: [hasCity, rows]
    futures,            \* futures created by executor.map, in submit order
    numThreads,         \* worker threads the executor has spawned
    results,            \* results taken by list(executor.map(...)) so far
    weather_data_list,  \* value returned by fetch_all_weather
    final_data,         \* merged_data[SELECTED_COLUMNS]
    table,              \* committed contents of table merged_data
    priorTable,         \* contents of merged_data when the run started
    connOpen,           \* connection of load_to_database is open
    callCount,          \* outbound API calls issued so far, per city name
    stagesStarted,      \* stages started so far, in order
    failedStage,        \* stage whose error ended the run, or None
    cleaned,            \* clean_up has run
    script_status,      \* XCom script_status pushed by run_external_script
    inFlightAtFailure,  \* a call raised while another call was running
    attempt,            \* try number of task run_python_script
    taskState,          \* state of task run_python_script
    exitSeen,           \* how the subprocess of the latest try ended
    emailState,         \* state of task email_notification
    emailTries,         \* tries of task email_notification so far
    emails              \* status texts handed to send_email, in order

\* The variables of the DAG run around the script.
dagVars == <<attempt, taskState, exitSeen, emailState, emailTries, emails>>

vars == <<csv, API_KEY, apiKinds, pc, city_data, futures, numThreads, results,
          weather_data_list, final_data, table, priorTable, connOpen,
          callCount, stagesStarted, failedStage, cleaned, script_status,
          inFlightAtFailure, attempt, taskState, exitSeen, emailState,
          emailTries, emails>>

\* ------------------------------------------------------------ inputs
\* All sequences over S of length at most n.
SeqsUpTo(S, n) == UNION {[1..k -> S] : k \in 0..n}

\* A city column of k rows.
PoolList(k) == [i \in 1..k |-> IF i % 2 = 1 THEN "A" ELSE "B"]

\* cities.csv as read_data finds it: missing or unreadable, readable without
\* a city column, or readable with the given city column.
CsvFiles(lists) ==
    {[state |-> "missing", rows |-> <<>>], [state |-> "nocity", rows |-> <<>>]}
        \cup {[state |-> "ok", rows |-> l] : l \in lists}

\* Kinds of answer to requests.get(url):
\*   ok        200, every section present, name is the requested city
\*   renamed   200, every section present, name differs from the request
\*   noname    200, no "name" field
\*   nomain    200, no "main" section
\*   badshape  200, "main" present without its "temp" field
\*   error     connection error, non-2xx status or a body that is not JSON
AllKinds == {"ok", "renamed", "noname", "nomain", "badshape", "error"}
PlainKinds == {"ok", "error"}

\* The answers of kind k to a request for city_name.
AnswersOfKind(k, city_name) ==
    CASE k = "ok" -> {[status |-> "ok", name |-> city_name, main |-> "full"]}
      [] k = "renamed" ->
            {[status |-> "ok", name |-> n, main |-> "full"] :
                n \in ApiNames \ {city_name}}
      [] k = "noname" -> {[status |-> "ok", name |-> None, main |-> "full"]}
      [] k = "nomain" ->
            {[status |-> "ok", name |-> city_name, main |-> "absent"]}
      [] k = "badshape" ->
            {[status |-> "ok", name |-> city_name, main |-> "nofield"]}
      [] OTHER -> {[status |-> "error", name |-> None, main |-> "absent"]}

\* The answers the API may give to a request for city_name made with api_key:
\* a request without a valid appid is refused (401).
ApiAnswers(kinds, city_name, api_key) ==
    IF api_key = None
    THEN AnswersOfKind("error", city_name)
    ELSE UNION {AnswersOfKind(k, city_name) : k \in kinds}

\* ------------------------------------------------------ fetch_weather
\* What a call of fetch_weather ends with, given the answer of requests.get:
\* the dict it returns, or the exception it raises (exc).
fetch_weather(city_name, answer) ==
    IF answer.status = "error"
    THEN [exc |-> "AirflowException", city |-> None, temperature |-> None]
    ELSE IF answer.main = "nofield"
    THEN [exc |-> "KeyError", city |-> None, temperature |-> None]
    ELSE [exc |-> None,
          city |-> answer.name,
          temperature |-> IF answer.main = "full" THEN "t" ELSE None]

\* ------------------------------------------------- ThreadPoolExecutor
NewFuture ==
    [state |-> "PENDING", exc |-> None, city |-> None, temperature |-> None]

Running(fs) == {i \in 1..Len(fs) : fs[i].state = "RUNNING"}
Pending(fs) == {i \in 1..Len(fs) : fs[i].state = "PENDING"}

\* A submit that starts a worker thread whatever the number of threads.
CanSpawnUncapped(n) == TRUE

\* _adjust_thread_count: submit starts a new worker thread only while fewer
\* than max_workers threads exist.
CanSpawn(n) == n < max_workers

\* Thread counts after a submit with n threads of which busy are running a
\* call: no thread is spawned when an idle one is available.
ThreadsAfterSubmit(n, busy) ==
    IF ~CanSpawn(n) THEN {n}
    ELSE IF busy >= n THEN {n + 1}
    ELSE {n, n + 1}

\* A result() that does not block on a call still in flight.
ResultReadyNoWait(f) == f.state \in {"FINISHED", "RUNNING"}

\* Future.result() returns (or raises) once the future is finished.
ResultReady(f) == f.state = "FINISHED"

\* shutdown(wait=True), run when the with block is left, returns once no
\* worker is running a call.
WorkersJoined(fs) == Running(fs) = {}

\* result_iterator's finally clause: cancel every future not yet taken; only
\* a pending future can be cancelled.
CancelAfter(fs, i) ==
    [j \in 1..Len(fs) |->
        IF j > i /\ fs[j].state = "PENDING"
        THEN [fs[j] EXCEPT !.state = "CANCELLED"]
        ELSE fs[j]]

\* [result for result in results if result is not None]
NotNone(rs) == SelectSeq(rs, LAMBDA r : ~r.isNone)

\* ------------------------------------------------------------ pd.merge
RECURSIVE MatchesFirst(_, _, _, _)
\* A join that keeps only the first right row matching left row i.
MatchesFirst(key, i, right, j) ==
    IF j > Len(right) THEN <<>>
    ELSE IF right[j].city = key
    THEN <<[city |-> key, ref |-> i, temperature |-> right[j].temperature]>>
    ELSE MatchesFirst(key, i, right, j + 1)

RECURSIVE MatchesFrom(_, _, _, _)
\* The joined rows of left row i with the right rows j, j+1, ...
MatchesFrom(key, i, right, j) ==
    IF j > Len(right) THEN <<>>
    ELSE (IF right[j].city = key
          THEN <<[city |-> key, ref |-> i, temperature |-> right[j].temperature]>>
          ELSE <<>>) \o MatchesFrom(key, i, right, j + 1)

RECURSIVE MergeFrom(_, _, _)
MergeFrom(left, right, i) ==
    IF i > Len(left) THEN <<>>
    ELSE MatchesFrom(left[i], i, right, 1) \o MergeFrom(left, right, i + 1)

\* pd.merge(city_data, weather_df, on="city", how="inner")[SELECTED_COLUMNS]:
\* one row per pair of a reference row and a weather row with the same city,
\* in the order of the reference rows.  ref stands for the country and
\* population of the reference row.
merge(left, right) == MergeFrom(left, right, 1)

\* ------------------------------------------------------------ read_data
\* A read_data that prints the error and returns None.
read_data_swallow(file) ==
    IF file.state = "missing"
    THEN [raised |-> FALSE, isNone |-> TRUE, hasCity |-> FALSE, rows |-> <<>>]
    ELSE [raised |-> FALSE, isNone |-> FALSE,
          hasCity |-> file.state = "ok", rows |-> file.rows]

\* read_data raises AirflowException when pd.read_csv fails.
read_data(file) ==
    IF file.state = "missing"
    THEN [raised |-> TRUE, isNone |-> TRUE, hasCity |-> FALSE, rows |-> <<>>]
    ELSE [raised |-> FALSE, isNone |-> FALSE,
          hasCity |-> file.state = "ok", rows |-> file.rows]

\* ---------------------------------------------------------------- Init
InitWith(files, kinds) ==
    /\ csv \in files
    /\ API_KEY \in {"k", None}
    /\ apiKinds = kinds
    /\ pc = "start"
    /\ city_data = [isNone |-> TRUE, hasCity |-> FALSE, rows |-> <<>>]
    /\ futures = <<>>
    /\ numThreads = 0
    /\ results = <<>>
    /\ weather_data_list = <<>>
    /\ final_data = <<>>
    /\ table \in {NoTable, OldRows}
    /\ priorTable = table
    /\ connOpen = FALSE
    /\ callCount = [k \in Keys |-> 0]
    /\ stagesStarted = <<>>
    /\ failedStage = None
    /\ cleaned = FALSE
    /\ script_status = None
    /\ inFlightAtFailure = FALSE
    /\ attempt = 1
    /\ taskState = "running"
    /\ exitSeen = None
    /\ emailState = "none"
    /\ emailTries = 0
    /\ emails = <<>>

Init == InitWith(CsvFiles(SeqsUpTo(Keys, MaxCities)), AllKinds)

InitPool == InitWith(CsvFiles({PoolList(k) : k \in 0..PoolCities}), PlainKinds)

\* ------------------------------------------------------------- __main__
\* An exception leaves __main__: the script exits with a non-zero status.
Fail(stage) ==
    /\ pc' = "failed"
    /\ failedStage' = stage

\* city_data = read_data(file_path)
ReadData ==
    /\ pc = "start"
    /\ stagesStarted' = Append(stagesStarted, "Load")
    /\ LET r == read_data(csv) IN
         IF r.raised
         THEN Fail("Load") /\ UNCHANGED city_data
         ELSE /\ city_data' = [isNone |-> r.isNone, hasCity |-> r.hasCity,
                               rows |-> r.rows]
              /\ pc' = "loaded"
              /\ UNCHANGED failedStage
    /\ UNCHANGED <<inFlightAtFailure, dagVars>>
    /\ UNCHANGED <<csv, API_KEY, apiKinds, futures, numThreads, results,
                   weather_data_list, final_data, table, priorTable, connOpen,
                   callCount, cleaned, script_status>>

\* if city_data is not None and "city" in city_data.columns:
\*     weather_data_list = fetch_all_weather(city_data["city"], API_KEY)
CallFetchAll ==
    /\ pc = "loaded"
    /\ IF ~city_data.isNone /\ city_data.hasCity
       THEN /\ pc' = IF Len(city_data.rows) = 0 THEN "collect" ELSE "submit"
            /\ stagesStarted' = Append(stagesStarted, "Fetch")
       ELSE /\ pc' = "done"
            /\ UNCHANGED stagesStarted
    /\ UNCHANGED <<inFlightAtFailure, dagVars>>
    /\ UNCHANGED <<csv, API_KEY, apiKinds, city_data, futures, numThreads,
                   results, weather_data_list, final_data, table, priorTable,
                   connOpen, callCount, failedStage, cleaned, script_status>>

\* executor.map: fs = [self.submit(fn, city) for city in cities]
Submit ==
    /\ pc = "submit"
    /\ futures' = Append(futures, NewFuture)
    /\ numThreads' \in ThreadsAfterSubmit(numThreads, Cardinality(Running(futures)))
    /\ pc' = IF Len(futures') = Len(city_data.rows) THEN "collect" ELSE "submit"
    /\ UNCHANGED <<inFlightAtFailure, dagVars>>
    /\ UNCHANGED <<csv, API_KEY, apiKinds, city_data, results,
                   weather_data_list, final_data, table, priorTable, connOpen,
                   callCount, stagesStarted, failedStage, cleaned, script_status>>

\* A worker thread takes the next work item off the queue and calls
\* fetch_weather, which sends the request.
StartTask ==
    /\ Pending(futures) # {}
    /\ Cardinality(Running(futures)) < numThreads
    /\ LET i == CHOOSE p \in Pending(futures) :
                    \A q \in Pending(futures) : p <= q
       IN /\ futures' = [futures EXCEPT ![i].state = "RUNNING"]
          /\ callCount' = [callCount EXCEPT ![city_data.rows[i]] = @ + 1]
    /\ UNCHANGED <<inFlightAtFailure, dagVars>>
    /\ UNCHANGED <<csv, API_KEY, apiKinds, pc, city_data, numThreads, results,
                   weather_data_list, final_data, table, priorTable, connOpen,
                   stagesStarted, failedStage, cleaned, script_status>>

\* The request of a running call is answered and fetch_weather returns or
\* raises; the future is finished.
FinishTask ==
    /\ \E i \in Running(futures) :
        \E answer \in ApiAnswers(apiKinds, city_data.rows[i], API_KEY) :
            LET r == fetch_weather(city_data.rows[i], answer) IN
            /\ futures' = [futures EXCEPT ![i] =
                            [state |-> "FINISHED", exc |-> r.exc,
                             city |-> r.city, temperature |-> r.temperature]]
            /\ inFlightAtFailure' =
                    (inFlightAtFailure
                     \/ (r.exc # None /\ Running(futures) \ {i} # {}))
    /\ UNCHANGED dagVars
    /\ UNCHANGED <<csv, API_KEY, apiKinds, pc, city_data, numThreads, results,
                   weather_data_list, final_data, table, priorTable, connOpen,
                   callCount, stagesStarted, failedStage, cleaned, script_status>>

\* list(executor.map(...)): take the result of the next future, in submit
\* order.  A future that raised ends the iteration: the futures not yet taken
\* are cancelled and the exception leaves the with block.
Collect ==
    /\ pc = "collect"
    /\ Len(results) < Len(futures)
    /\ LET i == Len(results) + 1 IN
        /\ ResultReady(futures[i])
        /\ IF futures[i].exc = None
           THEN /\ results' = Append(results,
                        [isNone |-> FALSE, city |-> futures[i].city,
                         temperature |-> futures[i].temperature])
                /\ UNCHANGED <<futures, pc>>
           ELSE /\ futures' = CancelAfter(futures, i)
                /\ pc' = "shutdown"
                /\ UNCHANGED results
    /\ UNCHANGED <<inFlightAtFailure, dagVars>>
    /\ UNCHANGED <<csv, API_KEY, apiKinds, city_data, numThreads,
                   weather_data_list, final_data, table, priorTable, connOpen,
                   callCount, stagesStarted, failedStage, cleaned, script_status>>

\* The with block ends normally (shutdown(wait=True) joins the workers) and
\* fetch_all_weather returns the results that are not None.
ReturnList ==
    /\ pc = "collect"
    /\ Len(results) = Len(futures)
    /\ WorkersJoined(futures)
    /\ weather_data_list' = NotNone(results)
    /\ pc' = "fetched"
    /\ UNCHANGED <<inFlightAtFailure, dagVars>>
    /\ UNCHANGED <<csv, API_KEY, apiKinds, city_data, futures, numThreads,
                   results, final_data, table, priorTable, connOpen, callCount,
                   stagesStarted, failedStage, cleaned, script_status>>

\* The with block ends by an exception: shutdown(wait=True) joins the workers,
\* then fetch_all_weather raises AirflowException.
ShutdownRaise ==
    /\ pc = "shutdown"
    /\ WorkersJoined(futures)
    /\ Fail("Fetch")
    /\ UNCHANGED <<inFlightAtFailure, dagVars>>
    /\ UNCHANGED <<csv, API_KEY, apiKinds, city_data, futures, numThreads,
                   results, weather_data_list, final_data, table, priorTable,
                   connOpen, callCount, stagesStarted, cleaned, script_status>>

\* if weather_data_list: merge with city_data and select the columns.
MergeSelect ==
    /\ pc = "fetched"
    /\ IF weather_data_list # <<>>
       THEN /\ final_data' = merge(city_data.rows, weather_data_list)
            /\ stagesStarted' = Append(stagesStarted, "Merge")
            /\ pc' = "persist"
       ELSE /\ pc' = "done"
            /\ UNCHANGED <<final_data, stagesStarted>>
    /\ UNCHANGED <<inFlightAtFailure, dagVars>>
    /\ UNCHANGED <<csv, API_KEY, apiKinds, city_data, futures, numThreads,
                   results, weather_data_list, table, priorTable, connOpen,
                   callCount, failedStage, cleaned, script_status>>

\* ----------------------------------------------------- load_to_database
\* engine.connect()
Connect ==
    /\ pc = "persist"
    /\ stagesStarted' = Append(stagesStarted, "Persist")
    /\ \/ /\ connOpen' = TRUE
          /\ pc' = "to_sql"
          /\ UNCHANGED failedStage
       \/ /\ Fail("Persist")
          /\ UNCHANGED connOpen
    /\ UNCHANGED <<inFlightAtFailure, dagVars>>
    /\ UNCHANGED <<csv, API_KEY, apiKinds, city_data, futures, numThreads,
                   results, weather_data_list, final_data, table, priorTable,
                   cleaned, callCount, script_status>>

\* to_sql(if_exists='replace'): the existing table is dropped.  SQLite runs
\* the DROP outside any transaction, so it is committed at once.
DropTable ==
    /\ pc = "to_sql"
    /\ table # NoTable
    /\ table' = NoTable
    /\ UNCHANGED <<inFlightAtFailure, dagVars>>
    /\ UNCHANGED <<csv, API_KEY, apiKinds, pc, city_data, futures, numThreads,
                   results, weather_data_list, final_data, priorTable,
                   connOpen, callCount, stagesStarted, failedStage, cleaned,
                   script_status>>

\* to_sql: the table is created, empty.
CreateTable ==
    /\ pc = "to_sql"
    /\ table = NoTable
    /\ table' = <<>>
    /\ pc' = "to_sql_insert"
    /\ UNCHANGED <<inFlightAtFailure, dagVars>>
    /\ UNCHANGED <<csv, API_KEY, apiKinds, city_data, futures, numThreads,
                   results, weather_data_list, final_data, priorTable,
                   connOpen, callCount, stagesStarted, failedStage, cleaned,
                   script_status>>

\* to_sql: the rows are inserted in one transaction, which is committed.
InsertRows ==
    /\ pc = "to_sql_insert"
    /\ table' = final_data
    /\ pc' = "to_sql_done"
    /\ UNCHANGED <<inFlightAtFailure, dagVars>>
    /\ UNCHANGED <<csv, API_KEY, apiKinds, city_data, futures, numThreads,
                   results, weather_data_list, final_data, priorTable,
                   connOpen, callCount, stagesStarted, failedStage, cleaned,
                   script_status>>

\* A connection closed by hand after to_sql, which an exception skips.
ConnClosedOnSuccessOnly(raised) == raised

\* with engine.connect() as connection: the connection is closed when the
\* block is left, by return or by exception; the value is whether it is
\* still open afterwards.
ConnAfterWith(raised) == FALSE

\* A statement of to_sql fails: an open transaction is rolled back, the with
\* block closes the connection and load_to_database raises AirflowException.
ToSqlFail ==
    /\ pc \in {"to_sql", "to_sql_insert"}
    /\ connOpen' = ConnAfterWith(TRUE)
    /\ Fail("Persist")
    /\ UNCHANGED <<inFlightAtFailure, dagVars>>
    /\ UNCHANGED <<csv, API_KEY, apiKinds, city_data, futures, numThreads,
                   results, weather_data_list, final_data, table, priorTable,
                   callCount, stagesStarted, cleaned, script_status>>

\* The with block closes the connection, load_to_database returns and
\* __main__ calls clean_up(None, None).
LoadDone ==
    /\ pc = "to_sql_done"
    /\ connOpen' = ConnAfterWith(FALSE)
    /\ cleaned' = TRUE
    /\ pc' = "done"
    /\ UNCHANGED <<inFlightAtFailure, dagVars>>
    /\ UNCHANGED <<csv, API_KEY, apiKinds, city_data, futures, numThreads,
                   results, weather_data_list, final_data, table, priorTable,
                   callCount, stagesStarted, failedStage, script_status>>

\* ---------------------------------------------------- run_external_script
\* The state of a task after a try that raised: up for retry while tries
\* remain, failed after the last one.
AfterFailedTry(tries) == IF tries <= retries THEN "up_for_retry" ELSE "failed"

\* subprocess.run(..., check=True) returns or raises CalledProcessError; the
\* status is pushed to XCom and, after a failure, AirflowException is raised.
\* The script's process has exited: its objects are gone.
XcomPush ==
    /\ taskState = "running"
    /\ pc \in {"done", "failed"}
    /\ script_status' = IF pc = "done" THEN "success" ELSE "failed"
    /\ exitSeen' = IF pc = "done" THEN "zero" ELSE "nonzero"
    /\ taskState' = IF pc = "done" THEN "success" ELSE AfterFailedTry(attempt)
    /\ city_data' = [isNone |-> TRUE, hasCity |-> FALSE, rows |-> <<>>]
    /\ futures' = <<>>
    /\ numThreads' = 0
    /\ results' = <<>>
    /\ weather_data_list' = <<>>
    /\ final_data' = <<>>
    /\ callCount' = [k \in Keys |-> 0]
    /\ inFlightAtFailure' = FALSE
    /\ UNCHANGED <<csv, API_KEY, apiKinds, pc, table, priorTable, connOpen,
                   stagesStarted, failedStage, cleaned, attempt, emailState,
                   emailTries, emails>>

\* subprocess.run cannot start the interpreter: the exception is no
\* CalledProcessError, nothing is pushed and the try fails.
LaunchFail ==
    /\ taskState = "running"
    /\ pc = "start"
    /\ pc' = "nolaunch"
    /\ exitSeen' = "nolaunch"
    /\ taskState' = AfterFailedTry(attempt)
    /\ UNCHANGED <<csv, API_KEY, apiKinds, city_data, futures, numThreads,
                   results, weather_data_list, final_data, table, priorTable,
                   connOpen, callCount, stagesStarted, failedStage, cleaned,
                   script_status, inFlightAtFailure, attempt, emailState,
                   emailTries, emails>>

\* The scheduler runs the next try of run_python_script: the XCom of the
\* task is cleared and the script starts afresh, on the table as the earlier
\* try left it.
Retry ==
    /\ taskState = "up_for_retry"
    /\ attempt' = attempt + 1
    /\ taskState' = "running"
    /\ script_status' = None
    /\ exitSeen' = None
    /\ pc' = "start"
    /\ priorTable' = table
    /\ stagesStarted' = <<>>
    /\ failedStage' = None
    /\ cleaned' = FALSE
    /\ UNCHANGED <<csv, API_KEY, apiKinds, city_data, futures, numThreads,
                   results, weather_data_list, final_data, table, connOpen,
                   callCount, inFlightAtFailure, emailState, emailTries,
                   emails>>

\* ------------------------------------------------------ email_notification
\* A trigger rule that is met whenever a try of the upstream task has ended.
TriggerOnEndOfTry(upstream) ==
    upstream \in {"success", "failed", "up_for_retry"}

\* The default trigger rule, all_success.
TriggerAllSuccess(upstream) == upstream = "success"

\* trigger_rule='all_done': the task runs once its upstream task has ended,
\* whatever its outcome.
TriggerRuleMet(upstream) == upstream \in {"success", "failed"}

\* A test for 'failed' instead of 'success'.
StatusTextUnlessFailed(task_status) ==
    IF task_status = "failed" THEN "failed" ELSE "successful"

\* send_status_email: the text of the mail for the status pulled from XCom.
StatusText(task_status) ==
    IF task_status = "success" THEN "successful" ELSE "failed"

\* A try of email_notification: send_status_email pulls script_status and
\* calls send_email, which returns or raises.
SendStatusEmail ==
    /\ TriggerRuleMet(taskState)
    /\ emailState \in {"none", "up_for_retry"}
    /\ emailTries' = emailTries + 1
    /\ emails' = Append(emails, StatusText(script_status))
    /\ \/ emailState' = "success"
       \/ emailState' = AfterFailedTry(emailTries')
    /\ UNCHANGED <<csv, API_KEY, apiKinds, pc, city_data, futures, numThreads,
                   results, weather_data_list, final_data, table, priorTable,
                   connOpen, callCount, stagesStarted, failedStage, cleaned,
                   script_status, inFlightAtFailure, attempt, taskState,
                   exitSeen>>

Next ==
    \/ ReadData
    \/ CallFetchAll
    \/ Submit
    \/ StartTask
    \/ FinishTask
    \/ Collect
    \/ ReturnList
    \/ ShutdownRaise
    \/ MergeSelect
    \/ Connect
    \/ DropTable
    \/ CreateTable
    \/ InsertRows
    \/ ToSqlFail
    \/ LoadDone
    \/ XcomPush
    \/ LaunchFail
    \/ Retry
    \/ SendStatusEmail

Spec == Init /\ [][Next]_vars

SpecPool == InitPool /\ [][Next]_vars

\* The scheduler runs a task whose trigger rule is met.
SpecLive == Init /\ [][Next]_vars /\ WF_vars(SendStatusEmail)

\* ================================================================ claims
Range(f) == {f[i] : i \in DOMAIN f}
Started(stage) == stage \in Range(stagesStarted)
Terminated == pc \in {"done", "failed"}
NoCalls == \A k \in Keys : callCount[k] = 0
\* The requested keys whose call returned a record.
SucceededKeys ==
    {city_data.rows[i] : i \in {j \in 1..Len(futures) :
        futures[j].state = "FINISHED" /\ futures[j].exc = None}}
\* The futures whose call raised.
FailedCalls ==
    {i \in 1..Len(futures) :
        futures[i].state = "FINISHED" /\ futures[i].exc # None}
KeysOf(rows) == {rows[i].city : i \in DOMAIN rows}
\* Every answer so far was a failure of the request or a complete answer
\* named as the request.
PlainAnswers ==
    \A i \in 1..Len(futures) :
        futures[i].state = "FINISHED" =>
            \/ futures[i].exc = "AirflowException"
            \/ /\ futures[i].exc = None
               /\ futures[i].city = city_data.rows[i]
               /\ futures[i].temperature # None
\* Every record returned so far has a name and every section.
CompleteRecords ==
    \A i \in 1..Len(futures) :
        (futures[i].state = "FINISHED" /\ futures[i].exc = None) =>
            (futures[i].city # None /\ futures[i].temperature # None)
\* fetch_all_weather has been called and has returned or raised.
FetchEnded == Started("Fetch") /\ pc \notin {"submit", "collect", "shutdown"}

\* C1: whatever calls fail, fetch_all_weather returns normally, with one
\* outcome per input key.
C1_FetchAllReturnsEveryOutcome ==
    (API_KEY # None /\ PlainAnswers /\ FetchEnded) =>
        /\ failedStage # "Fetch"
        /\ Len(weather_data_list) = Len(city_data.rows)

\* C2: a run whose load succeeded and in which some call failed (a 404) while
\* another succeeded ends with exit status 0 and status 'success', and the
\* table holds exactly the rows of the keys whose call succeeded.
C2_PartialFetchStillSucceeds ==
    ( /\ Terminated
      /\ PlainAnswers
      /\ failedStage \notin {"Load", "Persist"}
      /\ \E i \in FailedCalls :
            /\ futures[i].exc = "AirflowException"
            /\ city_data.rows[i] \notin SucceededKeys
      /\ SucceededKeys # {} )
    => /\ pc = "done"
       /\ script_status \in {None, "success"}
       /\ table # NoTable
       /\ KeysOf(table) = SucceededKeys

\* C3: at every moment at most 5 calls of fetch_weather have started and not
\* finished, however many keys there are.
C3_AtMostFiveOutstanding == Cardinality(Running(futures)) <= 5

\* Five calls are in flight and a further key waits for a free worker.
C3_Witness ==
    /\ Cardinality(Running(futures)) = 5
    /\ Pending(futures) # {}

\* C4: the keys of the joined (and persisted) rows are exactly the reference
\* keys that are requested keys whose call succeeded.
C4_InnerJoinOnRequestedKey ==
    CompleteRecords =>
        /\ Started("Merge") =>
                KeysOf(final_data) = Range(city_data.rows) \cap SucceededKeys
        /\ (pc = "done" /\ Started("Persist")) =>
                KeysOf(table) = Range(city_data.rows) \cap SucceededKeys

\* C5: a key is fetched at most once, however often it occurs in the input,
\* and a reference row is joined with at most one enrichment record.
C5_OneCallPerDistinctKey ==
    API_KEY # None =>
    /\ \A k \in Keys : callCount[k] <= 1
    /\ \A i \in DOMAIN city_data.rows :
            Cardinality({j \in DOMAIN final_data : final_data[j].ref = i}) <= 1

C7_MergeAfterAllFetches ==
    /\ Started("Merge") =>
            /\ Len(futures) = Len(city_data.rows)
            /\ \A i \in 1..Len(futures) :
                    futures[i].state = "FINISHED" /\ futures[i].exc = None
    /\ Terminated => Running(futures) = {}
    /\ failedStage = "Fetch" =>
            (~Started("Merge") /\ final_data = <<>> /\ table = priorTable)

\* The merge has run over the outcomes of two or more calls.
C7_Witness ==
    /\ Started("Merge")
    /\ Len(futures) >= 2
    /\ final_data # <<>>

\* C8: a reader of the table sees the complete prior table or the complete
\* new one at every moment, and a write that fails leaves the prior table.
C8_AtomicReplace ==
    (priorTable # NoTable /\ PlainAnswers) =>
        /\ \/ table = priorTable
           \/ (Started("Persist") /\ table = final_data)
        /\ failedStage = "Persist" => table = priorTable

\* C9: a readable reference file without the city column makes the run end
\* failed, never successful.
C9_MissingKeyColumnFails ==
    (csv.state = "nocity" /\ Terminated) =>
        /\ pc = "failed"
        /\ failedStage = "Load"
        /\ script_status # "success"

\* C10: in a run whose API key is absent no call of fetch_weather is issued.
C10_NoFetchWithoutCredential ==
    API_KEY = None => (NoCalls /\ Running(futures) = {})

\* The task run_python_script has ended, as success or as failed.
TaskFinished == taskState \in {"success", "failed"}

\* C11: whether the pipeline task ends as success or as failed, the
\* notification task runs afterwards and hands a terminal status to
\* send_email; it runs only once the pipeline task has ended.
C11_NotificationAlwaysRuns ==
    /\ TaskFinished ~> (emails # <<>>)
    /\ [](emails # <<>> =>
            /\ TaskFinished
            /\ \A i \in DOMAIN emails : emails[i] \in {"successful", "failed"})

\* The pipeline task has failed and the notification has run.
C11_Witness ==
    /\ taskState = "failed"
    /\ emails # <<>>

\* The script has exited with status 0 and run_external_script has not yet
\* returned.
RunSucceeded == pc = "done" /\ taskState = "running"

\* C12: after a run that ends succeeded the table holds exactly the joined
\* set of that run, also when that set is empty, and no row of an earlier run.
C12_TableIsThisRunsJoin ==
    (RunSucceeded /\ csv.state = "ok" /\ API_KEY # None
        /\ priorTable # NoTable) =>
        table = merge(city_data.rows, weather_data_list)

\* C13: on every path on which the script ends, successful or failed,
\* clean_up has been executed.
C13_CleanUpOnEveryPath ==
    (Terminated /\ API_KEY # None) => cleaned

\* C14: an answer with status 200 that deviates from the expected shape never
\* makes the fetch stage fail, and never yields a record with a null field
\* that is accepted into the join.
C14_ShapeDeviationIsAFailureOutcome ==
    /\ \A i \in DOMAIN final_data : final_data[i].temperature # None
    /\ (FetchEnded /\ \A i \in FailedCalls : futures[i].exc = "KeyError") =>
            failedStage # "Fetch"

\* The records of the calls that returned one.
ReturnedRecords ==
    {[isNone |-> FALSE, city |-> futures[i].city,
      temperature |-> futures[i].temperature] :
        i \in {j \in 1..Len(futures) :
                futures[j].state = "FINISHED" /\ futures[j].exc = None}}

\* C15: when a call fails while another call is in flight, the other call
\* runs to completion, is not cancelled, and the outcome it produced is
\* recorded by the coordinator.
C15_InFlightCallOutcomeRecorded ==
    (inFlightAtFailure /\ API_KEY # None /\ PlainAnswers
        /\ Cardinality(Range(city_data.rows)) = Len(city_data.rows)
        /\ ReturnedRecords # {}) =>
        /\ \A i \in 1..Len(futures) : futures[i].state # "CANCELLED"
        /\ FetchEnded =>
                /\ failedStage # "Fetch"
                /\ ReturnedRecords \subseteq Range(weather_data_list)

\* The orders in which the records of rs can have been collected.
Reorderings(rs) ==
    {[i \in 1..Len(rs) |-> rs[p[i]]] : p \in Permutations(1..Len(rs))}

\* C16: for the reference table of the run, every order of the collected
\* records gives the same set of joined rows.
C16_MergeOrderIndependent ==
    (taskState = "running" /\ Started("Merge")) =>
        \A rs \in Reorderings(weather_data_list) :
            Range(merge(city_data.rows, rs)) = Range(final_data)

\* The merge has joined two different records.
C16_Witness ==
    /\ taskState = "running"
    /\ Started("Merge")
    /\ Len(weather_data_list) >= 2
    /\ weather_data_list[1] # weather_data_list[2]
    /\ Len(final_data) >= 2

\* C17: the connection opened by load_to_database is open only during the
\* write; it is closed when load_to_database returns and when it raises, so
\* none is open once the persist stage has ended.
C17_ConnectionReleased ==
    connOpen =>
        /\ taskState = "running"
        /\ pc \in {"to_sql", "to_sql_insert", "to_sql_done"}

\* to_sql failed after the connection was opened and the table dropped, and
\* load_to_database has raised.
C17_Witness ==
    /\ pc = "failed"
    /\ failedStage = "Persist"
    /\ table # priorTable
    /\ ~connOpen

\* C18: the notification reports 'successful' exactly when the latest try of
\* the pipeline task saw the subprocess exit with status 0; after a non-zero
\* exit, and when nothing was pushed because the subprocess could not be
\* started, it reports 'failed'.
C18_ReportMatchesFinalExit ==
    \A i \in DOMAIN emails :
        /\ emails[i] \in {"successful", "failed"}
        /\ (emails[i] = "successful") <=> (exitSeen = "zero")

\* The subprocess of the last try could not be started, nothing was pushed,
\* and the notification reported 'failed'.
C18_Witness ==
    /\ exitSeen = "nolaunch"
    /\ script_status = None
    /\ emails # <<>>
    /\ emails[Len(emails)] = "failed"

\* C19: the pipeline script is tried at most twice; no status mail is sent
\* while a try is running or a retry is pending, so none between a failed
\* first try and its retry; the status mailed is that of the last try.
C19_NoMailBeforeLastTry ==
    /\ attempt \in 1..2
    /\ emails # <<>> =>
            /\ \/ taskState = "success"
               \/ (taskState = "failed" /\ attempt = 2)
            /\ \A i \in DOMAIN emails :
                    (emails[i] = "successful") <=> (taskState = "success")

\* The first try failed, the retry succeeded and the mail says successful.
C19_Witness ==
    /\ attempt = 2
    /\ taskState = "success"
    /\ emails = <<"successful">>

====
